---- MODULE Spec2Model ----
(***************************************************************************)
(* Model of the calendar day grid and of the um-translate element of       *)
(* ubermanu/components.  Spec is the day grid with its day cells,          *)
(* SpecTranslate the um-translate element with the translators of its      *)
(* class.                                                                  *)
(*                                                                         *)
(* Three revisions of the DayGrid element are in the sources:              *)
(*   "DayGrid_a"  src/src/DayGrid.js, first class  (startDay, selection)   *)
(*   "DayGrid_b"  src/src/DayGrid.js, second class (startDay, no selection)*)
(*   "day_grid"   src/src/day-grid.js              (Sunday first, selection)*)
(*                                                                         *)
(* A Date is its ECMAScript time value, counted in minutes since           *)
(* 1970-01-01T00:00Z.  The local time zone is a fixed offset tz (minutes   *)
(* east of UTC); daylight saving changes are not modelled.                 *)
(***************************************************************************)
EXTENDS Integers, Sequences, FiniteSets, TLC

VARIABLES
    impl,            \* which revision of the element is running
    tz,              \* local time zone offset of the host, minutes east of UTC
    year,            \* DayGrid.year  (-1 = unset)
    month,           \* DayGrid.month (-1 = unset)
    startDay,        \* DayGrid.startDay
    _selectedDates,  \* DayGrid._selectedDates, ISO strings
    days,            \* the day cells of the grid, as the last update rendered them
    lastNav          \* the navigation method that ran last and the <<year, month>> it
                     \* started from (for jumpToDate: the date passed and the cell
                     \* focused); "none" once anything else has happened since

gridVars == <<impl, tz, year, month, startDay, _selectedDates, days, lastNav>>

(* The um-translate element of src/unnamed/part_004 and the translators of   *)
(* its class.  A string is a sequence of pieces of text; "{" and "}" are      *)
(* pieces of their own.  An attribute, or a translator's result, is the set   *)
(* of its value: {} when it is missing (null).                                *)
VARIABLES
    languages,       \* Translate.#languages: lang -> its translators, in insertion order
    registered,      \* every registerTranslator call so far, <<lang, translator>>
    text,            \* the text attribute of the element
    lang,            \* the lang attribute of the element
    children,        \* the child elements of the element, in document order
    innerHTML,       \* shadowRoot.innerHTML of the element
    lastCall         \* the last render or translateText call and what it returned;
                     \* "none" once a translator has been registered since

translateVars == <<languages, registered, text, lang, children, innerHTML, lastCall>>

vars == <<gridVars, translateVars>>

NoCall == [op |-> "none"]

\* a page without translators and without an um-translate element in use
NoTranslate ==
    /\ languages = [l \in {} |-> <<>>]
    /\ registered = <<>>
    /\ text = {}
    /\ lang = {}
    /\ children = <<>>
    /\ innerHTML = <<>>
    /\ lastCall = NoCall

----------------------------------------------------------------------------
(* Bounds of the model *)

\* longest _selectedDates the model builds
MaxSelected == 2

\* the years a grid is driven through: around the unset sentinel -1, the
\* two-digit years 0..99, a century year, and an ordinary and a leap year
Years == {-2, -1, 0, 99, 100, 2023, 2024}

\* host time zones
TzOffsets == {-300, 60}

\* the calendar dates <<year, month, day>> of the cells a user clicks
ClickDates == {<<2024, 0, 1>>}

\* the dates <<year, month, day, minute of the day>>, in local time, a host page
\* passes to jumpToDate
JumpFields == {<<2024, 0, 15, 0>>}

\* the moments <<year, month, day, minute of the day>>, in local time, at which
\* jumpToToday reads the clock
NowFields == {<<2024, 0, 15, 630>>}

\* the calendar dates <<year, month, day>> of the cells a user presses keys on
KeyDates == {<<2024, 0, 15>>, <<2024, 0, 31>>}

\* the keys DayCell._onKeyDown handles by a jump
JumpKeys == {"ArrowUp", "ArrowDown", "ArrowLeft", "ArrowRight", "Home", "End"}

\* the values a host page assigns to the properties year and month of a grid
\* already in use (Init covers every value a grid starts with)
AssignedYears == {-1, 2024}
AssignedMonths == {-1, 0}

Impls == {"DayGrid_a", "DayGrid_b", "day_grid"}

----------------------------------------------------------------------------
(* ECMAScript Date, as far as the grid uses it *)

MinutesPerDay == 1440

InLeapYear(y) == (y % 4 = 0 /\ y % 100 # 0) \/ y % 400 = 0

\* ECMAScript DayFromYear: day number of January 1st of year y
DayFromYear(y) ==
    365 * (y - 1970) + ((y - 1969) \div 4) - ((y - 1901) \div 100) + ((y - 1601) \div 400)

\* days of the year before the first of month mn (0..11)
DayWithinYear(mn, leap) ==
    <<0, 31, 59, 90, 120, 151, 181, 212, 243, 273, 304, 334>>[mn + 1]
        + (IF leap /\ mn >= 2 THEN 1 ELSE 0)

\* ECMAScript MakeDay: month and date may lie outside their ranges and carry over
MakeDay(y, m, dt) ==
    LET ym == y + (m \div 12)
        mn == m % 12
    IN  DayFromYear(ym) + DayWithinYear(mn, InLeapYear(ym)) + dt - 1

\* new Date(y, m, dt): local midnight; a year 0..99 means 1900 + year
NewDate(y, m, dt) ==
    LET yr == IF 0 <= y /\ y <= 99 THEN 1900 + y ELSE y
    IN  MakeDay(yr, m, dt) * MinutesPerDay - tz

\* ECMAScript YearFromTime: the year y with DayFromYear(y) <= day < DayFromYear(y + 1)
YearNear(day, y0) ==
    CHOOSE y \in (y0 - 1)..(y0 + 1) : DayFromYear(y) <= day /\ day < DayFromYear(y + 1)

YearFromDay(day) == YearNear(day, 1970 + ((day * 400) \div 146097))

\* ECMAScript MonthFromTime, from the day within the year
MonthFromDay(dwy, leap) ==
    CHOOSE mn \in 0..11 :
        /\ DayWithinYear(mn, leap) <= dwy
        /\ mn < 11 => dwy < DayWithinYear(mn + 1, leap)

CivilInMonth(y, mn, dwy, leap) ==
    [year |-> y, month |-> mn, date |-> dwy - DayWithinYear(mn, leap) + 1]

CivilInYear(y, dwy, leap) == CivilInMonth(y, MonthFromDay(dwy, leap), dwy, leap)

CivilOfYear(day, y) == CivilInYear(y, day - DayFromYear(y), InLeapYear(y))

\* calendar fields of a day number (YearFromTime, MonthFromTime, DateFromTime)
Civil(day) == CivilOfYear(day, YearFromDay(day))

\* Day(LocalTime(t))
LocalDay(t) == (t + tz) \div MinutesPerDay

getFullYear(t) == Civil(LocalDay(t)).year
getMonth(t) == Civil(LocalDay(t)).month
getDate(t) == Civil(LocalDay(t)).date

\* WeekDay: 1970-01-01 was a Thursday
getDay(t) == (LocalDay(t) + 4) % 7

\* Date.prototype.toISOString: the UTC fields, <<year, month 1..12, day, hour, minute>>
ISOFields(c, r) == <<c.year, c.month + 1, c.date, r \div 60, r % 60>>

toISOString(t) == ISOFields(Civil(t \div MinutesPerDay), t % MinutesPerDay)

\* new Date(isoString): the time value of the UTC fields toISOString wrote
DateParse(iso) == MakeDay(iso[1], iso[2] - 1, iso[3]) * MinutesPerDay + iso[4] * 60 + iso[5]

\* the time within the local day, kept by setDate and setMonth
TimeWithinDay(t) == (t + tz) % MinutesPerDay

SetDateIn(c, tw, dt) == MakeDay(c.year, c.month, dt) * MinutesPerDay + tw - tz

\* Date.prototype.setDate(dt), in local time; dt may lie outside the month
Date_setDate(t, dt) == SetDateIn(Civil(LocalDay(t)), TimeWithinDay(t), dt)

SetMonthIn(c, tw, m) == MakeDay(c.year, m, c.date) * MinutesPerDay + tw - tz

\* Date.prototype.setMonth(m), in local time: the day of the month is kept and
\* carries over when month m is shorter
Date_setMonth(t, m) == SetMonthIn(Civil(LocalDay(t)), TimeWithinDay(t), m)

\* Array.prototype.includes
includes(arr, x) == \E i \in 1..Len(arr) : arr[i] = x

----------------------------------------------------------------------------
(* getDaysData *)

\* the "unset" test at the head of getDaysData
isUnset_m(y, m) == y = -1 /\ m = -1

isUnset(y, m) == y = -1 \/ m = -1

previousMonthDaysToAdd_m(firstDay, sd) == getDay(firstDay) - sd

previousMonthDaysToAdd(firstDay, sd) ==
    IF getDay(firstDay) - sd < 0 THEN getDay(firstDay) - sd + 7 ELSE getDay(firstDay) - sd

previousMonthDate_m(y, m, lastDayOfPreviousMonth, i) ==
    NewDate(y, m - 1, getDate(lastDayOfPreviousMonth) - i)

\* the date pushed by the previous-month loop at loop index i
previousMonthDate(y, m, lastDayOfPreviousMonth, i) ==
    NewDate(y, m - 1, getDate(lastDayOfPreviousMonth) - i + 1)

nextMonthDaysToAdd_m(len) == 41 - len

nextMonthDaysToAdd(len) == 42 - len

\* a day descriptor of the revisions that keep selected dates
Descriptor(date, disabled, sel) ==
    [date |-> date, disabled |-> disabled, selected |-> includes(sel, toISOString(date))]

\* DayGrid.getDaysData, src/src/DayGrid.js first class
getDaysData(y, m, sd, sel) ==
    IF isUnset(y, m) THEN <<>>
    ELSE
        LET firstDay == NewDate(y, m, 1)
            lastDayOfPreviousMonth == NewDate(y, m, 0)
            nPrev == previousMonthDaysToAdd(firstDay, sd)
            prev == [k \in 1..nPrev |->
                        Descriptor(previousMonthDate(y, m, lastDayOfPreviousMonth, nPrev - k + 1),
                                   TRUE, sel)]
            lastDay == NewDate(y, m + 1, 0)
            cur == [i \in 1..getDate(lastDay) |-> Descriptor(NewDate(y, m, i), FALSE, sel)]
            nNext == nextMonthDaysToAdd(Len(prev) + Len(cur))
            next == [i \in 1..nNext |-> Descriptor(NewDate(y, m + 1, i), TRUE, sel)]
        IN  prev \o cur \o next

\* DayGrid.getDaysData, src/src/DayGrid.js second class: no selected field
getDaysData_b(y, m, sd) ==
    IF y = -1 \/ m = -1 THEN <<>>
    ELSE
        LET firstDay == NewDate(y, m, 1)
            lastDayOfPreviousMonth == NewDate(y, m, 0)
            nPrev == IF getDay(firstDay) - sd < 0
                     THEN getDay(firstDay) - sd + 7
                     ELSE getDay(firstDay) - sd
            prev == [k \in 1..nPrev |->
                        [date |-> NewDate(y, m - 1,
                                          getDate(lastDayOfPreviousMonth) - (nPrev - k + 1) + 1),
                         disabled |-> TRUE]]
            lastDay == NewDate(y, m + 1, 0)
            cur == [i \in 1..getDate(lastDay) |-> [date |-> NewDate(y, m, i), disabled |-> FALSE]]
            nNext == 42 - (Len(prev) + Len(cur))
            next == [i \in 1..nNext |-> [date |-> NewDate(y, m + 1, i), disabled |-> TRUE]]
        IN  prev \o cur \o next

\* DayGrid.getDaysData, src/src/day-grid.js: the week starts on Sunday
getDaysData_dayGrid(y, m, sel) ==
    IF y = -1 \/ m = -1 THEN <<>>
    ELSE
        LET firstDay == NewDate(y, m, 1)
            lastDay == NewDate(y, m + 1, 0)
            nPrev == getDay(firstDay)
            \* for (i = firstDay.getDay() - 1; i >= 0; i--): the k-th pass has i = nPrev - k
            prev == [k \in 1..nPrev |-> Descriptor(NewDate(y, m, 1 - (nPrev - k)), TRUE, sel)]
            cur == [i \in 1..getDate(lastDay) |-> Descriptor(NewDate(y, m, i), FALSE, sel)]
            nNext == IF Len(prev) + Len(cur) < 42 THEN 42 - (Len(prev) + Len(cur)) ELSE 0
            next == [i \in 1..nNext |-> Descriptor(NewDate(y, m + 1, i), TRUE, sel)]
        IN  prev \o cur \o next

\* render(): one cell per descriptor of the running revision's getDaysData
render(y, m, sd, sel) ==
    CASE impl = "DayGrid_a" -> getDaysData(y, m, sd, sel)
      [] impl = "DayGrid_b" -> getDaysData_b(y, m, sd)
      [] impl = "day_grid"  -> getDaysData_dayGrid(y, m, sel)

----------------------------------------------------------------------------
(* The element *)

HasSelection == impl \in {"DayGrid_a", "day_grid"}

NoNav == [op |-> "none", from |-> <<>>]

Nav(op) == [op |-> op, from |-> <<year, month>>]

\* the element is constructed, its attributes are set and its first update has run
Init ==
    /\ impl \in Impls
    /\ tz \in TzOffsets
    /\ year \in Years
    /\ month \in -1..11
    /\ startDay \in (IF impl = "day_grid" THEN {0} ELSE 0..7)
    /\ _selectedDates = <<>>
    /\ days = render(year, month, startDay, _selectedDates)
    /\ lastNav = NoNav
    /\ NoTranslate

\* requestUpdate(): Lit runs the update as a microtask, before the next event
\* handler can run, and the update replaces the cells by those of render() for
\* the year, month, startDay and selected dates the handler leaves behind
requestUpdate(y, m, sd, sel) == days' = render(y, m, sd, sel)

\* assignment to the reactive property year
setYear ==
    /\ \E y \in AssignedYears :
         /\ y # year
         /\ year' = y
         /\ requestUpdate(y, month, startDay, _selectedDates)
    /\ lastNav' = NoNav
    /\ UNCHANGED <<impl, tz, month, startDay, _selectedDates>>
    /\ UNCHANGED translateVars

\* assignment to the reactive property month
setMonth ==
    /\ \E m \in AssignedMonths :
         /\ m # month
         /\ month' = m
         /\ requestUpdate(year, m, startDay, _selectedDates)
    /\ lastNav' = NoNav
    /\ UNCHANGED <<impl, tz, year, startDay, _selectedDates>>
    /\ UNCHANGED translateVars

previousMonth_m ==
    /\ lastNav' = Nav("previousMonth")
    /\ UNCHANGED <<impl, tz, startDay, _selectedDates>>
    /\ UNCHANGED translateVars
    /\ IF year = -1 \/ month = -1
       THEN UNCHANGED <<year, month, days>>
       ELSE /\ IF month = 0
               THEN /\ month' = 11 /\ year' = year
                    /\ requestUpdate(year, 11, startDay, _selectedDates)
               ELSE /\ month' = month - 1 /\ year' = year
                    /\ requestUpdate(year, month - 1, startDay, _selectedDates)

previousMonth ==
    /\ lastNav' = Nav("previousMonth")
    /\ UNCHANGED <<impl, tz, startDay, _selectedDates>>
    /\ UNCHANGED translateVars
    /\ IF year = -1 \/ month = -1
       THEN UNCHANGED <<year, month, days>>
       ELSE /\ IF month = 0
               THEN /\ year - 1 \in Years
                    /\ month' = 11 /\ year' = year - 1
                    /\ requestUpdate(year - 1, 11, startDay, _selectedDates)
               ELSE /\ month' = month - 1 /\ year' = year
                    /\ requestUpdate(year, month - 1, startDay, _selectedDates)

nextMonth ==
    /\ lastNav' = Nav("nextMonth")
    /\ UNCHANGED <<impl, tz, startDay, _selectedDates>>
    /\ UNCHANGED translateVars
    /\ IF year = -1 \/ month = -1
       THEN UNCHANGED <<year, month, days>>
       ELSE /\ IF month = 11
               THEN /\ year + 1 \in Years
                    /\ month' = 0 /\ year' = year + 1
                    /\ requestUpdate(year + 1, 0, startDay, _selectedDates)
               ELSE /\ month' = month + 1 /\ year' = year
                    /\ requestUpdate(year, month + 1, startDay, _selectedDates)

previousYear_m ==
    /\ lastNav' = Nav("previousYear")
    /\ UNCHANGED <<impl, tz, month, startDay, _selectedDates>>
    /\ UNCHANGED translateVars
    /\ year - 1 \in Years
    /\ year' = year - 1
    /\ requestUpdate(year - 1, month, startDay, _selectedDates)

previousYear ==
    /\ lastNav' = Nav("previousYear")
    /\ UNCHANGED <<impl, tz, month, startDay, _selectedDates>>
    /\ UNCHANGED translateVars
    /\ IF year = -1
       THEN UNCHANGED <<year, days>>
       ELSE /\ year - 1 \in Years
            /\ year' = year - 1
            /\ requestUpdate(year - 1, month, startDay, _selectedDates)

nextYear ==
    /\ lastNav' = Nav("nextYear")
    /\ UNCHANGED <<impl, tz, month, startDay, _selectedDates>>
    /\ UNCHANGED translateVars
    /\ IF year = -1
       THEN UNCHANGED <<year, days>>
       ELSE /\ year + 1 \in Years
            /\ year' = year + 1
            /\ requestUpdate(year + 1, month, startDay, _selectedDates)

\* the cells a user acts on: those showing one of ClickDates
Clicked(i) ==
    /\ i \in 1..Len(days)
    /\ \E c \in ClickDates : days[i].date = MakeDay(c[1], c[2], c[3]) * MinutesPerDay - tz

\* the date property of a cell, set by render() from day.date.toISOString()
CellDate(i) == toISOString(days[i].date)

\* this._selectedDates.push(day.date)
push(arr, key) == Append(arr, key)

\* this._selectedDates.filter((date) => date !== day.date)
RECURSIVE without(_, _)
without(arr, key) ==
    IF arr = <<>> THEN <<>>
    ELSE (IF Head(arr) # key THEN <<Head(arr)>> ELSE <<>>) \o without(Tail(arr), key)

\* DayGrid.select(day)
select ==
    /\ HasSelection
    /\ Len(_selectedDates) < MaxSelected
    /\ \E i \in 1..Len(days) :
         /\ Clicked(i)
         /\ _selectedDates' = push(_selectedDates, CellDate(i))
         /\ requestUpdate(year, month, startDay, push(_selectedDates, CellDate(i)))
    /\ lastNav' = NoNav
    /\ UNCHANGED <<impl, tz, year, month, startDay>>
    /\ UNCHANGED translateVars

\* DayGrid.deselect(day)
deselect ==
    /\ HasSelection
    /\ \E i \in 1..Len(days) :
         /\ Clicked(i)
         /\ _selectedDates' = without(_selectedDates, CellDate(i))
         /\ requestUpdate(year, month, startDay, without(_selectedDates, CellDate(i)))
    /\ lastNav' = NoNav
    /\ UNCHANGED <<impl, tz, year, month, startDay>>
    /\ UNCHANGED translateVars

\* DayGrid.toggle(day), src/src/DayGrid.js first class only
toggle ==
    /\ impl = "DayGrid_a"
    /\ \E i \in 1..Len(days) :
         /\ Clicked(i)
         /\ IF days[i].selected
            THEN /\ _selectedDates' = without(_selectedDates, CellDate(i))
                 /\ requestUpdate(year, month, startDay, without(_selectedDates, CellDate(i)))
            ELSE /\ Len(_selectedDates) < MaxSelected
                 /\ _selectedDates' = push(_selectedDates, CellDate(i))
                 /\ requestUpdate(year, month, startDay, push(_selectedDates, CellDate(i)))
    /\ lastNav' = NoNav
    /\ UNCHANGED <<impl, tz, year, month, startDay>>
    /\ UNCHANGED translateVars

\* the moment of the local fields <<year, month, day, minute of the day>>
LocalTime(f) == MakeDay(f[1], f[2], f[3]) * MinutesPerDay + f[4] - tz

\* this.querySelector(`[date="${iso}"]`): the first cell, in document order,
\* whose reflected date attribute is iso; 0 for null
FirstOf(matches) ==
    IF matches = {} THEN 0 ELSE CHOOSE i \in matches : \A j \in matches : i <= j

querySelector(cells, iso) ==
    FirstOf({i \in 1..Len(cells) : toISOString(cells[i].date) = iso})

\* DayGrid.jumpToDate(date), with the callback it leaves on updateComplete: the
\* update has run and the cells have reflected their date attributes when the
\* callback looks for the cell.  lastNav keeps the date passed, the cell the
\* callback called focus() on (0 when it found none), and the key and the cell
\* the call came from
JumpTo(date, key, cell) ==
    \E m \in {getMonth(date)}, y \in {getFullYear(date)} :
        /\ month' = m
        /\ year' = y
        /\ requestUpdate(y, m, startDay, _selectedDates)
        /\ lastNav' = [op |-> "jumpToDate", from |-> <<>>, date |-> date,
                       focus |-> querySelector(days', toISOString(date)),
                       key |-> key, cell |-> cell]
        /\ UNCHANGED <<impl, tz, startDay, _selectedDates>>
        /\ UNCHANGED translateVars

\* a host page calls jumpToDate
jumpToDate == \E f \in JumpFields : \E date \in {LocalTime(f)} : JumpTo(date, "none", <<>>)

\* DayGrid.jumpToToday(): jumpToDate(new Date())
jumpToToday == \E now \in NowFields : \E date \in {LocalTime(now)} : JumpTo(date, "none", <<>>)

\* the cells a user presses keys on: those showing one of KeyDates
KeyCell(i) ==
    /\ i \in 1..Len(days)
    /\ \E c \in KeyDates : days[i].date = MakeDay(c[1], c[2], c[3]) * MinutesPerDay - tz

\* case "End": setMonth(getMonth() + 1), then setDate(0)
End(t) == Date_setDate(Date_setMonth(t, getMonth(t) + 1), 0)

\* the date DayCell._onKeyDown passes to jumpToDate, from new Date(this.date)
KeyTarget(key, t) ==
    CASE key = "ArrowUp"    -> Date_setDate(t, getDate(t) - 7)
      [] key = "ArrowDown"  -> Date_setDate(t, getDate(t) + 7)
      [] key = "ArrowLeft"  -> Date_setDate(t, getDate(t) - 1)
      [] key = "ArrowRight" -> Date_setDate(t, getDate(t) + 1)
      [] key = "Home"       -> Date_setDate(t, 1)
      [] key = "End"        -> End(t)

\* DayCell._onKeyDown for the keys that move: this.grid.jumpToDate(...)
\* (Enter and Space call this.grid.select(this): the action select)
_onKeyDown ==
    \E i \in 1..Len(days), key \in JumpKeys :
        /\ KeyCell(i)
        /\ \E date \in {KeyTarget(key, DateParse(CellDate(i)))} :
               JumpTo(date, key, CellDate(i))

\* DayCell.requestUpdate: the tabIndex a cell is left with
tabIndex(i) == IF days[i].disabled THEN -1 ELSE 0

Next ==
    \/ jumpToDate
    \/ jumpToToday
    \/ _onKeyDown
    \/ setYear
    \/ setMonth
    \/ previousMonth
    \/ nextMonth
    \/ previousYear
    \/ nextYear
    \/ select
    \/ deselect
    \/ toggle

Spec == Init /\ [][Next]_vars

----------------------------------------------------------------------------
(* The um-translate element, src/unnamed/part_004 *)

\* most registerTranslator calls the model follows
MaxRegistered == 3

\* the languages translators are registered for and phrases are translated to
Langs == {<<"fr">>, <<"de">>}

\* 'Hello {name}', the template of the story, and what it is with its slot filled
HelloName == <<"Hello ", "{", "name", "}">>
HelloWorld == <<"Hello ", "World">>

\* the translators a page registers:
\*   "story"  the translator of Translate.stories.ts, which knows the template
\*   "filled" knows the template and the phrase with its slot filled
\*   "blank"  answers the empty string
Translators == {"story", "filled", "blank"}

\* the phrases passed to translateText
Phrases == {HelloName, HelloWorld}

\* the text attributes, lang attributes and children an um-translate element is
\* built with
TextAttributes == {{}, {HelloName}}
LangAttributes == {{}, {<<"fr">>}}
ChildLists == {<<>>, <<[slot |-> <<"name">>, textContent |-> <<"World">>]>>}

\* Translator.translate(phrase): {} is null or undefined
translate(t, phrase) ==
    CASE t = "story" ->
            IF phrase = HelloName THEN {<<"Bonjour ", "{", "name", "}">>} ELSE {}
      [] t = "filled" ->
            IF phrase = HelloName THEN {<<"Salut ", "{", "name", "}">>}
            ELSE IF phrase = HelloWorld THEN {<<"Salut ", "World">>}
            ELSE {}
      [] t = "blank" -> {<<>>}

\* if (res): a string that is not empty
Truthy(res) == res # {} /\ res # {<<>>}

\* the string of a result that is one
StringOf(res) == CHOOSE str \in res : TRUE

\* this.getAttribute(name) || fallback
getAttribute(attr, fallback) == IF Truthy(attr) THEN StringOf(attr) ELSE fallback

\* this.querySelector(`[slot="${name}"]`): the first child of that slot, 0 for null
querySlot(kids, name) ==
    FirstOf({i \in 1..Len(kids) : kids[i].slot = name})

\* the place of the first "}" of str, 0 when it has none
ClosingBrace(str) == FirstOf({i \in 1..Len(str) : str[i] = "}"})

\* slot?.textContent ?? `{${name}}`
SlotText(kids, slot, name) ==
    IF slot = 0 THEN <<"{">> \o name \o <<"}">> ELSE kids[slot].textContent

\* text.replace(/\{(.*?)\}/g, ...): each "{" up to the next "}" is a placeholder
RECURSIVE replace(_, _)
replace(str, kids) ==
    IF str = <<>> THEN <<>>
    ELSE IF Head(str) = "{" /\ ClosingBrace(str) # 0
         THEN SlotText(kids,
                       querySlot(kids, SubSeq(str, 2, ClosingBrace(str) - 1)),
                       SubSeq(str, 2, ClosingBrace(str) - 1))
                  \o replace(SubSeq(str, ClosingBrace(str) + 1, Len(str)), kids)
         ELSE <<Head(str)>> \o replace(Tail(str), kids)

\* for (const t of translators): the first result that is not empty, and the
\* translators asked on the way
RECURSIVE tryTranslators(_, _, _)
tryTranslators(ts, phrase, asked) ==
    IF ts = <<>> THEN [res |-> phrase, consulted |-> asked]
    ELSE IF Truthy(translate(Head(ts), phrase))
         THEN [res |-> StringOf(translate(Head(ts), phrase)),
               consulted |-> Append(asked, Head(ts))]
         ELSE tryTranslators(Tail(ts), phrase, Append(asked, Head(ts)))

translateText_m(phrase, targetLang) ==
    IF DOMAIN languages = {}
    THEN [res |-> phrase, consulted |-> <<>>]
    ELSE tryTranslators(languages[CHOOSE l \in DOMAIN languages : TRUE], phrase, <<>>)

\* Translate.translateText(phrase, targetLang)
translateText(phrase, targetLang) ==
    IF targetLang \notin DOMAIN languages
    THEN [res |-> phrase, consulted |-> <<>>]
    ELSE tryTranslators(languages[targetLang], phrase, <<>>)

\* Set.prototype.add: a translator already in the set keeps its place
add(set, t) == IF includes(set, t) THEN set ELSE Append(set, t)

\* Translate.registerTranslator(lang, translator)
registerTranslator ==
    /\ Len(registered) < MaxRegistered
    /\ \E l \in Langs, t \in Translators :
         /\ languages' = [k \in DOMAIN languages \cup {l} |->
                             IF k # l THEN languages[k]
                             ELSE add(IF l \in DOMAIN languages THEN languages[l] ELSE <<>>, t)]
         /\ registered' = Append(registered, <<l, t>>)
    /\ lastCall' = NoCall
    /\ UNCHANGED <<text, lang, children, innerHTML>>
    /\ UNCHANGED gridVars

\* the text Translate.render leaves in the shadow root: the placeholders are
\* replaced first, the result is translated
renderText(str, kids, targetLang) == translateText(replace(str, kids), targetLang).res

\* connectedCallback(): this.render()
connectedCallback ==
    /\ innerHTML' = renderText(getAttribute(text, <<>>), children, getAttribute(lang, <<"en">>))
    /\ lastCall' = [op |-> "render"]
    /\ UNCHANGED <<languages, registered, text, lang, children>>
    /\ UNCHANGED gridVars

\* a page calls translateText on the element
callTranslateText ==
    /\ \E phrase \in Phrases, l \in Langs :
         lastCall' = [op |-> "translateText", phrase |-> phrase, lang |-> l,
                      res |-> translateText(phrase, l).res,
                      consulted |-> translateText(phrase, l).consulted]
    /\ UNCHANGED <<languages, registered, text, lang, children, innerHTML>>
    /\ UNCHANGED gridVars

\* the element is built, with its attributes and children, and not yet connected;
\* no translator is registered; the page has no day grid in use
InitTranslate ==
    /\ languages = [l \in {} |-> <<>>]
    /\ registered = <<>>
    /\ text \in TextAttributes
    /\ lang \in LangAttributes
    /\ children \in ChildLists
    /\ innerHTML = <<>>
    /\ lastCall = NoCall
    /\ impl = "day_grid" /\ tz = 0 /\ year = -1 /\ month = -1 /\ startDay = 0
    /\ _selectedDates = <<>> /\ days = <<>> /\ lastNav = NoNav

NextTranslate ==
    \/ registerTranslator
    \/ connectedCallback
    \/ callTranslateText

SpecTranslate == InitTranslate /\ [][NextTranslate]_vars

----------------------------------------------------------------------------
(* Properties of getDaysData, read off the cells of the last update *)

IsSet == year # -1 /\ month # -1

Revised == impl \in {"DayGrid_a", "DayGrid_b"}

\* the local calendar date of a cell, <<year, month, day>>
DateOf(d) ==
    LET c == Civil(LocalDay(d.date)) IN <<c.year, c.month, c.date>>

\* number of cells in front of the first cell that is not disabled
LeadingPadding == Cardinality({i \in 1..Len(days) : \A j \in 1..i : days[j].disabled})

\* number of cells that are not disabled
InMonth == Cardinality({i \in 1..Len(days) : ~days[i].disabled})

\* weekday (0 = Sunday) of the 1st of the month the grid is asked for
FirstWeekday == (MakeDay(year, month, 1) + 4) % 7

\* length of month m of year y by the Gregorian rules
GregorianLength(y, m) ==
    IF m = 1
    THEN IF (y % 4 = 0 /\ y % 100 # 0) \/ y % 400 = 0 THEN 29 ELSE 28
    ELSE IF m \in {3, 5, 8, 10} THEN 30 ELSE 31

\* C1: with year set, month in 0..11 and startDay in 0..6, the grid has
\* exactly 42 day descriptors, in every revision of the element.
C1_FortyTwoDescriptors ==
    (year # -1 /\ month \in 0..11 /\ startDay \in 0..6) => Len(days) = 42

C1_Witness ==
    /\ impl = "DayGrid_a" /\ year = 2024 /\ month = 1 /\ startDay = 3
    /\ Len(days) = 42
    /\ LeadingPadding = 1

\* C2: in both classes of DayGrid.js every descriptor's date is exactly one
\* calendar day after the date of the descriptor before it.
C2_ConsecutiveDays ==
    Revised =>
        \A i \in 1..(Len(days) - 1) :
            LocalDay(days[i + 1].date) = LocalDay(days[i].date) + 1

C2_Witness ==
    /\ impl = "DayGrid_a" /\ year = 2024 /\ month = 0 /\ startDay = 3
    /\ Len(days) = 42
    /\ days[1].disabled /\ DateOf(days[1]) = <<2023, 11, 27>>
    /\ days[42].disabled /\ DateOf(days[42]) = <<2024, 1, 6>>

\* C3 (as claimed): a descriptor is not disabled exactly when the month and the
\* year of its date are the month and the year the grid is asked for.
C3_DisabledIffOutsideMonth ==
    impl = "DayGrid_a" =>
        \A i \in 1..Len(days) :
            (~days[i].disabled) <=>
                (getMonth(days[i].date) = month /\ getFullYear(days[i].date) = year)

\* C4: with year = -1 or month = -1 the grid has no descriptor, whatever
\* startDay and the selected dates are.
C4_UnsetIsEmpty ==
    (year = -1 \/ month = -1) => days = <<>>

C4_Witness ==
    /\ impl = "DayGrid_a" /\ year = -1 /\ month = 0
    /\ _selectedDates # <<>>
    /\ days = <<>>

\* C5 (as claimed): the number of previous-month descriptors is
\* (weekday of the 1st of the target month - startDay) mod 7 for startDay in
\* 0..7, and when the 1st falls on startDay the first descriptor is the 1st of
\* the target month.
C5_LeadingPaddingCount ==
    (impl = "DayGrid_a" /\ IsSet) =>
        /\ LeadingPadding = (FirstWeekday - startDay) % 7
        /\ (FirstWeekday = startDay % 7) => DateOf(days[1]) = <<year, month, 1>>

\* C6 (as claimed): the number of not-disabled descriptors is the Gregorian
\* length of the target month, and the padding in front of March ends on the
\* last day of February by the same leap-year rule.
C6_GregorianMonthLength ==
    (impl = "DayGrid_a" /\ IsSet) =>
        /\ InMonth = GregorianLength(year, month)
        /\ (month = 2 /\ LeadingPadding > 0) =>
               /\ getMonth(days[LeadingPadding].date) = 1
               /\ getDate(days[LeadingPadding].date) = GregorianLength(year, 1)

\* C7 (as claimed): for month = 11 every trailing padding descriptor is a date
\* in January of year + 1, for month = 0 every leading padding descriptor is a
\* date in December of year - 1.
C7_YearRollover ==
    (impl = "DayGrid_a" /\ IsSet) =>
        \A i \in 1..Len(days) :
            /\ (month = 11 /\ i > LeadingPadding + InMonth) =>
                   /\ getMonth(days[i].date) = 0
                   /\ getFullYear(days[i].date) = year + 1
            /\ (month = 0 /\ i <= LeadingPadding) =>
                   /\ getMonth(days[i].date) = 11
                   /\ getFullYear(days[i].date) = year - 1

\* C8 (as claimed): every descriptor of every revision carries a selected flag,
\* true exactly when its date key is one of the grid's selected dates.
C8_SelectedIffMember ==
    \A i \in 1..Len(days) :
        /\ "selected" \in DOMAIN days[i]
        /\ days[i].selected = includes(_selectedDates, toISOString(days[i].date))

\* C9 (as claimed): for every year other than -1, years 0..99 and negative
\* years included, the grid is drawn and its not-disabled descriptors are dates
\* of the requested year and month.
C9_AnyYear ==
    (impl = "DayGrid_a" /\ IsSet) =>
        /\ InMonth > 0
        /\ \A i \in 1..Len(days) :
               ~days[i].disabled =>
                   /\ getFullYear(days[i].date) = year
                   /\ getMonth(days[i].date) = month

\* C10: called on a grid whose year and month are set, previousMonth leaves the
\* month before (December of year - 1 from January) and nextMonth the month
\* after (January of year + 1 from December).
C10_MonthNavigation ==
    (lastNav.op \in {"previousMonth", "nextMonth"}
        /\ lastNav.from[1] # -1 /\ lastNav.from[2] # -1) =>
        LET y == lastNav.from[1]
            m == lastNav.from[2]
        IN  IF lastNav.op = "previousMonth"
            THEN <<year, month>> = (IF m = 0 THEN <<y - 1, 11>> ELSE <<y, m - 1>>)
            ELSE <<year, month>> = (IF m = 11 THEN <<y + 1, 0>> ELSE <<y, m + 1>>)

C10_Witness ==
    /\ lastNav = [op |-> "previousMonth", from |-> <<2024, 0>>]
    /\ year = 2023 /\ month = 11
    /\ Len(days) = 42

\* C11: navigation does not move an unset grid.  Called with year = -1,
\* previousMonth, nextMonth, previousYear and nextYear leave year and month as
\* they were; called with month = -1, previousMonth and nextMonth do.
C11_UnsetGridStays ==
    /\ (lastNav.op \in {"previousMonth", "nextMonth", "previousYear", "nextYear"}
            /\ lastNav.from[1] = -1) =>
           <<year, month>> = lastNav.from
    /\ (lastNav.op \in {"previousMonth", "nextMonth"} /\ lastNav.from[2] = -1) =>
           <<year, month>> = lastNav.from

C11_Witness ==
    /\ lastNav = [op |-> "previousYear", from |-> <<-1, 3>>]
    /\ year = -1 /\ month = 3
    /\ days = <<>>

\* C12 (as claimed): after jumpToDate(d), whatever the time of day of d, month
\* and year are those of d and, the update done, the cell jumpToDate focused is
\* the cell of d's calendar date.
C12_JumpFocusesDate ==
    lastNav.op = "jumpToDate" =>
        /\ month = getMonth(lastNav.date)
        /\ year = getFullYear(lastNav.date)
        /\ lastNav.focus \in 1..Len(days)
        /\ LocalDay(days[lastNav.focus].date) = LocalDay(lastNav.date)

\* C13 (as claimed): End on a day cell jumps to the last day of the month of
\* that cell, Home to its first day, whatever day of the month the cell holds.
C13_HomeEndOwnMonth ==
    (lastNav.op = "jumpToDate" /\ lastNav.key \in {"Home", "End"}) =>
        LET cell == Civil(LocalDay(DateParse(lastNav.cell)))
            to == Civil(LocalDay(lastNav.date))
        IN  /\ to.year = cell.year
            /\ to.month = cell.month
            /\ to.date = (IF lastNav.key = "Home"
                          THEN 1
                          ELSE GregorianLength(cell.year, cell.month))

\* the date keys that occur more than once in the selected dates
SelectedTwice ==
    {i \in 1..Len(_selectedDates) :
        \E j \in 1..Len(_selectedDates) : j # i /\ _selectedDates[j] = _selectedDates[i]}

\* C14 (as claimed): a selected day cell has tabIndex -1, and a click, Enter or
\* Space on it does not add its date to the selected dates again, so that no
\* date is ever in the selected dates twice.
C14_SelectedCellInert ==
    impl = "day_grid" =>
        /\ \A i \in 1..Len(days) : days[i].selected => tabIndex(i) = -1
        /\ SelectedTwice = {}

\* the template of the element, its language and the slot of its placeholder
Template == getAttribute(text, <<>>)
TargetLang == getAttribute(lang, <<"en">>)

\* the element is as C15 has it: a template with a {name} placeholder, a
\* translator registered for its lang that has an entry for the template, and a
\* child in the slot
StoryCase ==
    /\ Template = HelloName
    /\ TargetLang \in DOMAIN languages
    /\ \E i \in 1..Len(languages[TargetLang]) :
           Truthy(translate(languages[TargetLang][i], Template))
    /\ querySlot(children, <<"name">>) # 0

\* C15 (as claimed): when the text attribute is a template with {name}
\* placeholders, a translator registered for lang has an entry for the template
\* and the children fill the slots, render leaves the translated template with
\* each placeholder replaced by the text of its slot.
C15_RenderTranslatesTemplate ==
    (lastCall.op = "render" /\ StoryCase) =>
        innerHTML = replace(translateText(Template, TargetLang).res, children)

\* the translators registered for language l, in the order of their registration
RegisteredFor(l) ==
    LET calls == SelectSeq(registered, LAMBDA r : r[1] = l)
    IN  [i \in 1..Len(calls) |-> calls[i][2]]

\* the places of ts whose translator has a result that is not empty for phrase
Hits(ts, phrase) == {i \in 1..Len(ts) : Truthy(translate(ts[i], phrase))}

\* C16: translateText(phrase, lang) returns the first non-empty result among
\* the translators registered for lang, in the order of their registration;
\* it returns phrase itself when none was registered for lang or none has a
\* result; and it consults no translator that was not registered for lang.
C16_FirstResultInOrder ==
    lastCall.op = "translateText" =>
        LET ts == RegisteredFor(lastCall.lang)
            hits == Hits(ts, lastCall.phrase)
        IN  /\ hits = {} => lastCall.res = lastCall.phrase
            /\ hits # {} =>
                   lastCall.res = StringOf(translate(ts[FirstOf(hits)], lastCall.phrase))
            /\ \A i \in 1..Len(lastCall.consulted) :
                   includes(ts, lastCall.consulted[i])

C16_Witness ==
    /\ registered = << <<(<<"de">>), "filled">>, <<(<<"fr">>), "blank">>,
                       <<(<<"fr">>), "filled">> >>
    /\ lastCall = [op |-> "translateText", phrase |-> HelloWorld, lang |-> <<"fr">>,
                   res |-> <<"Salut ", "World">>, consulted |-> <<"blank", "filled">>]

\* day number of the 1st of the month the grid is asked for
FirstOfMonth == MakeDay(year, month, 1)

\* C17 (as claimed): in the Sunday-first grid of day-grid.js every cell in front
\* of the first not-disabled cell is a date of the month before the target
\* month, the 1st of the target month is in the grid exactly once, not
\* disabled, and the first cell is a Sunday.
C17_SundayFirstPadding ==
    (impl = "day_grid" /\ IsSet) =>
        /\ \A i \in 1..LeadingPadding :
               /\ LocalDay(days[i].date) < FirstOfMonth
               /\ LocalDay(days[i].date) >= MakeDay(year, month - 1, 1)
        /\ Cardinality({i \in 1..Len(days) : LocalDay(days[i].date) = FirstOfMonth}) = 1
        /\ \A i \in 1..Len(days) :
               LocalDay(days[i].date) = FirstOfMonth => ~days[i].disabled
        /\ getDay(days[1].date) = 0

====
